---- MODULE Spec2Model ----
(***************************************************************************)
(* Camera synchronisation and pixel comparison of the GLB comparison tool. *)
(*                                                                         *)
(* CameraSync (src/src/services/CameraSync.js) keeps a registry of viewers *)
(* and a re-entrancy guard, copies one viewer's camera onto the others and *)
(* re-enables their controls and clears the guard from setTimeout          *)
(* callbacks.  ModelViewer (src/src/components/ModelViewer.jsx) drives it  *)
(* from throttled interaction events.  A second CameraSync class           *)
(* (src/src/services/ReportService.js) keeps its registry in an array.     *)
(*                                                                         *)
(* Two captured images are compared pixel by pixel by window.pixelmatch    *)
(* (src/unnamed/part_010) or by a simplePixelMatch fallback                *)
(* (CameraSync.js, src/script.js); compareImages                           *)
(* (src/scripts/compare-models.js) and ModelComparator.compareModels       *)
(* (src/js/ModelComparator.js) report the metrics of a comparison.         *)
(*                                                                         *)
(* ComparisonService.compareModels (CameraSync.js) captures the two        *)
(* mounted viewers between animation frames; the standalone page           *)
(* (src/unnamed/part_002, part_003) loads models and runs the              *)
(* ModelComparator from its Compare button; batch-process.js runs one      *)
(* compare-models.js child per planned comparison (src/scripts).           *)
(***************************************************************************)
EXTENDS Integers, Sequences, FiniteSets, TLC

(***************************************************************************)
(* Bounds of the model.                                                    *)
(***************************************************************************)
\* Interaction events a user makes before interaction stops (ViewerSpec).
MaxEvents == 3
\* Longest array registry of the ReportService variant (ArraySpec).
MaxViewers == 3
\* Largest width and height of a captured image (PixelSpec).
MaxSide == 2
\* Most GLB files in the directory batch-process.js is given (BatchSpec).
MaxModels == 3

(***************************************************************************)
(* Program constants.                                                      *)
(***************************************************************************)
ReenableDelay == 5
\* Faulty variant: the guard is cleared sooner than the controls are re-enabled.
GuardDelayTooShort == ReenableDelay - 2
GuardDelay == 10
ResetReenableDelay == 10
ResetGuardDelay == 50
syncDelay == 16
ArrayDelay == 10

(***************************************************************************)
(* Viewers.  A viewer object is what a ModelViewer registers: getCamera    *)
(* and getControls closures.  Each object is registered under the `type`   *)
(* of the component that made it.  a2 is a viewer whose getCamera()        *)
(* returns undefined, c2 one whose getControls() returns undefined, and    *)
(* b2 one whose controls.update() throws.                                  *)
(***************************************************************************)
Ids == {"a", "b", "c"}
Objs == {"a1", "a2", "b1", "b2", "c1", "c2"}
NoObj == "none"

TypeOf(o) ==
    CASE o \in {"a1", "a2"} -> "a"
      [] o \in {"b1", "b2"} -> "b"
      [] OTHER -> "c"

HasCamera(o) == o \in Objs \ {"a2"}
HasControls(o) == o \in Objs \ {"c2"}
UpdateThrows(o) == o = "b2"
Usable(o) == HasCamera(o) /\ HasControls(o)

\* The camera poses an interaction can produce.
PoseIds == {0, 1}
Pose(k) == [position |-> k, quaternion |-> k, fov |-> 45 + k, zoom |-> 1 + k,
            target |-> k]

VARIABLES
    viewers,       \* the registry: entries [id, viewer] in insertion order
    camera,        \* per viewer object: position, quaternion, fov, zoom
    controls,      \* per viewer object: target, enabled
    isSyncing,     \* the re-entrancy guard
    isEnabled,     \* the sync toggle of the ReportService variant
    timers,        \* pending setTimeout callbacks, in the order they will run
    elapsed,       \* per viewer object: Date.now() - lastSyncTime of its
                   \* handleChange, counted no further than just above syncDelay
    eventsLeft,    \* interaction events the user still makes
    ret,           \* how the call made by the last step ended
    img1,          \* the first captured image: width, height, RGBA data
    img2,          \* the second captured image
    threshold,     \* the threshold the caller supplies, in hundredths
    comparison,    \* what the last comparison was given and returned
    capture,       \* where ComparisonService.compareModels stands
    coasting,      \* the viewer objects whose damped motion has not died out
    model,         \* standalone page, per viewer: is this.model set
    loading,       \* standalone page, per viewer: where its load handler stands
    compareBtnDisabled,  \* standalone page: compareBtn.disabled
    comparator,    \* the ModelComparator: options.threshold,
                   \* lastComparisonResult and where compareModels stands
    pixelmatchLoaded,    \* is pixelmatch a function in the page
    entry,         \* the entry point that last reached its pixel comparison
    cli,           \* the compare-models.js process that was last spawned
    batch          \* batch-process.js: the planned comparisons, the loop
                   \* index, the exit codes seen and the results pushed

syncVars == <<viewers, camera, controls, isSyncing, isEnabled, timers, elapsed,
              eventsLeft, ret>>

pixelVars == <<img1, img2, threshold, comparison>>

captureVars == <<capture, coasting>>

pageVars == <<model, loading, compareBtnDisabled, comparator, pixelmatchLoaded,
              entry>>

batchVars == <<cli, batch>>

toolVars == <<captureVars, pageVars, batchVars>>

vars == <<viewers, camera, controls, isSyncing, isEnabled, timers, elapsed,
          eventsLeft, ret, img1, img2, threshold, comparison, capture,
          coasting, model, loading, compareBtnDisabled, comparator,
          pixelmatchLoaded, entry, cli, batch>>

NoCall == [op |-> "none", arg |-> "none", result |-> "none"]

\* undefined: an option that is not supplied, a read past the end of an array.
Undefined == -1

NoImage == [width |-> 0, height |-> 0, data |-> <<>>]

NoComparison ==
    [by |-> "none", width |-> 0, height |-> 0, threshold |-> Undefined,
     data1 |-> <<>>, data2 |-> <<>>, diffPixels |-> 0, output |-> <<>>,
     totalPixels |-> 0, diffPercentage |-> 0, similarityPercentage |-> 0]

\* No screenshot has been captured and no comparison made.
NothingCaptured ==
    /\ img1 = NoImage
    /\ img2 = NoImage
    /\ threshold = Undefined
    /\ comparison = NoComparison

\* compareModels has not been called: rendered holds the viewer objects
\* that have rendered a frame since the call applied the camera state.
NoCapture == [pc |-> "idle", rendered |-> {}]

\* The two ModelViewers of the standalone page.
PageViewers == {1, 2}

\* new ModelComparator(): lastComparisonResult is null (here Undefined, a
\* stored result being told by the threshold it was made with) and
\* compareModels is not running.
NewComparator ==
    [threshold |-> 10, last |-> Undefined, pc |-> "idle", attempts |-> 0,
     outcome |-> "none"]

NoEntry == [by |-> "none", algorithm |-> "none", outcome |-> "none"]

\* The standalone page as DOMContentLoaded leaves it: no model in either
\* viewer, updateCompareButton() has disabled the button.
PageLoaded ==
    /\ model = [v \in PageViewers |-> FALSE]
    /\ loading = [v \in PageViewers |-> "idle"]
    /\ compareBtnDisabled = TRUE
    /\ comparator = NewComparator
    /\ entry = NoEntry

\* No compare-models.js process has been spawned.
NoCli ==
    [pc |-> "none", exists1 |-> FALSE, exists2 |-> FALSE, tempHtml |-> FALSE,
     created |-> FALSE, completed |-> {}, report |-> FALSE,
     code |-> Undefined]

\* batch-process.js has not been started.
NoBatch ==
    [pc |-> "none", comparisons |-> <<>>, i |-> 0, closed |-> <<>>,
     results |-> <<>>, summary |-> {}]

\* No comparison is under way, no camera is coasting, the standalone page
\* has just been loaded with the pixelmatch script in place, and no command
\* line tool runs.
NothingRunning ==
    /\ capture = NoCapture
    /\ coasting = {}
    /\ PageLoaded
    /\ pixelmatchLoaded = TRUE
    /\ cli = NoCli
    /\ batch = NoBatch

(***************************************************************************)
(* The registry.                                                           *)
(***************************************************************************)
HasId(reg, id) == \E i \in 1..Len(reg) : reg[i].id = id

\* Map.get, and Array.find(v => v.id === id)?.viewer: the first entry of id.
Get(reg, id) ==
    IF HasId(reg, id)
    THEN reg[CHOOSE i \in 1..Len(reg) :
                 reg[i].id = id /\ \A j \in 1..(i - 1) : reg[j].id # id].viewer
    ELSE NoObj

Registered(o) == \E i \in 1..Len(viewers) : viewers[i].viewer = o

\* Map.set keeps the position of a key that is already present.
MapSet(reg, id, o) ==
    IF HasId(reg, id)
    THEN [i \in 1..Len(reg) |->
             IF reg[i].id = id THEN [id |-> id, viewer |-> o] ELSE reg[i]]
    ELSE Append(reg, [id |-> id, viewer |-> o])

MapDelete(reg, id) == SelectSeq(reg, LAMBDA e : e.id # id)

registerViewer(viewerObj, id) ==
    /\ viewers' = MapSet(viewers, id, viewerObj)
    /\ ret' = NoCall
    /\ UNCHANGED <<pixelVars, toolVars>>
    /\ UNCHANGED <<camera, controls, isSyncing, isEnabled, timers, elapsed,
                   eventsLeft>>

unregisterViewer(id) ==
    /\ viewers' = MapDelete(viewers, id)
    /\ ret' = NoCall
    /\ UNCHANGED <<pixelVars, toolVars>>
    /\ UNCHANGED <<camera, controls, isSyncing, isEnabled, timers, elapsed,
                   eventsLeft>>

(***************************************************************************)
(* setTimeout.  Each pending callback carries the time left until it is    *)
(* due.  A callback runs once its time has come and every callback due     *)
(* before it (or due at the same time and set earlier) has run: the queue  *)
(* is kept in that order, and its head is the next callback to run.        *)
(***************************************************************************)
Ahead(q, delay) == Cardinality({i \in 1..Len(q) : q[i].left <= delay})

SetTimeout(q, fn, o, wasEnabled, delay) ==
    LET k == Ahead(q, delay)
    IN  SubSeq(q, 1, k)
        \o <<[fn |-> fn, controls |-> o, wasEnabled |-> wasEnabled,
              delay |-> delay, left |-> delay]>>
        \o SubSeq(q, k + 1, Len(q))

Runnable(q) == q # <<>> /\ q[1].left = 0

Elapse(q, d) ==
    [i \in 1..Len(q) |->
        [q[i] EXCEPT !.left = IF q[i].left > d THEN q[i].left - d ELSE 0]]

\* The time until the first pending callback that is not yet due.
NextDue(q) ==
    LET waiting == {i \in 1..Len(q) : q[i].left > 0}
    IN  IF waiting = {}
        THEN syncDelay + 1
        ELSE q[CHOOSE i \in waiting : \A j \in waiting : i <= j].left

\* Time since the last accepted handleChange; all values above syncDelay
\* pass the throttle alike.
Saturate(t) == IF t > syncDelay THEN syncDelay + 1 ELSE t

(***************************************************************************)
(* syncFromSource and resetAllCameras.  A call works on a record st of the *)
(* objects' fields, the timer queue and the guard, and leaves in           *)
(* st.result how it ended.  st.listeners are the viewers whose ModelViewer *)
(* has attached handleChange to their controls, and st.elapsed the time    *)
(* since each handleChange last passed its throttle.                       *)
(***************************************************************************)
Here == [camera |-> camera, controls |-> controls, timers |-> timers,
         isSyncing |-> isSyncing, result |-> "none", elapsed |-> elapsed,
         listeners |-> {}]

\* sourceValues / refValues: the values are cloned, not referenced.
Snapshot(st, o) ==
    [position |-> st.camera[o].position,
     quaternion |-> st.camera[o].quaternion,
     fov |-> st.camera[o].fov, zoom |-> st.camera[o].zoom,
     target |-> st.controls[o].target]

CopyCamera(values) ==
    [position |-> values.position, quaternion |-> values.quaternion,
     fov |-> values.fov, zoom |-> values.zoom]

\* The re-enable callback is scheduled with the flag read before disabling.
Reenable(q, t, wasEnabled, delay) ==
    SetTimeout(q, "reenable", t, wasEnabled, delay)

\* Faulty variant: the handler is not throttled.
PassesAlways(o, el) == TRUE

\* now - lastSyncTime > syncDelay
Passes(o, el) == el[o] > syncDelay

\* controls.update() on a target whose camera the copy has moved dispatches
\* 'change', and the target's own handleChange runs inside the propagation.
Echoes(before, after) ==
    {t \in before.listeners : Snapshot(before, t) # Snapshot(after, t)}

RECURSIVE handleChange(_, _)

\* The body of the forEach callback for one target t: the writes, the
\* update() with the listeners it wakes, and the deferred re-enable.
ApplyTo(t, values, delay, st) ==
    LET wasEnabled == st.controls[t].enabled
        written == [st EXCEPT
                      !.camera[t] = CopyCamera(values),
                      !.controls[t] = [target |-> values.target,
                                       enabled |-> FALSE]]
        updated == IF t \in Echoes(st, written)
                   THEN [handleChange(t, written) EXCEPT !.result = st.result]
                   ELSE written
    IN  IF UpdateThrows(t)
        THEN [written EXCEPT !.result = "threw"]
        ELSE [updated EXCEPT
                !.timers = Reenable(updated.timers, t, wasEnabled, delay)]

\* Whether the forEach callback returns early for registry entry e.
Skips(e, skipId) ==
    e.id = skipId \/ ~HasCamera(e.viewer) \/ ~HasControls(e.viewer)

\* viewers.forEach from entry i on; an exception ends the loop.
RECURSIVE ForEach(_, _, _, _, _)
ForEach(i, skipId, values, delay, st) ==
    IF i > Len(viewers) \/ st.result = "threw"
    THEN st
    ELSE IF Skips(viewers[i], skipId)
         THEN ForEach(i + 1, skipId, values, delay, st)
         ELSE ForEach(i + 1, skipId, values, delay,
                      ApplyTo(viewers[i].viewer, values, delay, st))

\* The guard-clear callback is scheduled after the loop has completed.
Finish(st, delay) ==
    IF st.result = "threw"
    THEN st
    ELSE [st EXCEPT
            !.timers = SetTimeout(st.timers, "clearGuard", NoObj, FALSE, delay),
            !.result = "propagated"]

\* Faulty variant: the guard is not consulted.
AcceptsAlways(st) == TRUE

Accepts(st) == ~st.isSyncing

\* Faulty variant: the source's controls are not checked.
SourceMissingIgnoresControls(sourceViewer) ==
    sourceViewer = NoObj \/ ~HasCamera(sourceViewer)

SourceMissing(sourceViewer) ==
    sourceViewer = NoObj \/ ~HasCamera(sourceViewer) \/ ~HasControls(sourceViewer)

syncFromSource(sourceId, st) ==
    LET sourceViewer == Get(viewers, sourceId)
    IN  IF ~Accepts(st)
        THEN [st EXCEPT !.result = "dropped"]
        ELSE IF SourceMissing(sourceViewer)
        THEN [st EXCEPT !.isSyncing = FALSE, !.result = "nosource"]
        ELSE Finish(ForEach(1, sourceId, Snapshot(st, sourceViewer),
                            ReenableDelay, [st EXCEPT !.isSyncing = TRUE]),
                    GuardDelay)

\* handleChange of viewer o, on the objects as st has them.  Called from a
\* target's 'change' inside a propagation, its sync finds the guard set and
\* returns, and only that target's lastSyncTime has changed.
handleChange(o, st) ==
    IF Passes(o, st.elapsed)
    THEN syncFromSource(TypeOf(o), [st EXCEPT !.elapsed[o] = 0])
    ELSE [st EXCEPT !.result = "throttled"]

\* The reference camera and controls are those of viewer object ref; NoObj
\* stands for a null reference, whose position cannot be read.
resetAllCameras(ref, st) ==
    IF ~Accepts(st)
    THEN [st EXCEPT !.result = "dropped"]
    ELSE IF ref = NoObj
    THEN [st EXCEPT !.isSyncing = TRUE, !.result = "threw"]
    ELSE Finish(ForEach(1, NoObj, Snapshot(st, ref), ResetReenableDelay,
                        [st EXCEPT !.isSyncing = TRUE]),
                ResetGuardDelay)

\* Faulty variant: the re-enable callback clears the guard as well.
CallbackClearsGuardEarly(t, st) ==
    IF t.fn = "clearGuard"
    THEN [st EXCEPT !.isSyncing = FALSE]
    ELSE [st EXCEPT !.controls[t.controls].enabled = TRUE,
                    !.isSyncing = FALSE]

\* The setTimeout callbacks: the re-enable and the guard-clear of
\* CameraSync.js, and the single callback of the ReportService variant.
Callback(t, st) ==
    CASE t.fn = "reenable" ->
            IF t.wasEnabled
            THEN [st EXCEPT !.controls[t.controls].enabled = TRUE]
            ELSE st
      [] t.fn = "clearGuard" ->
            [st EXCEPT !.isSyncing = FALSE]
      [] OTHER ->
            [st EXCEPT !.controls[t.controls].enabled = TRUE,
                       !.isSyncing = FALSE]

\* The step leaves the objects, the queue and the guard as st has them.
Becomes(st) ==
    /\ camera' = st.camera
    /\ controls' = st.controls
    /\ timers' = st.timers
    /\ isSyncing' = st.isSyncing

(***************************************************************************)
(* The actions of the coordinator.                                         *)
(***************************************************************************)
Register ==
    \E o \in Objs : registerViewer(o, TypeOf(o))

Unregister ==
    \E id \in Ids : unregisterViewer(id)

SyncCall ==
    \E id \in Ids :
        LET st == syncFromSource(id, Here)
        IN  /\ Becomes(st)
            /\ ret' = [op |-> "sync", arg |-> id, result |-> st.result]
            /\ UNCHANGED <<pixelVars, toolVars>>
            /\ UNCHANGED <<viewers, isEnabled, elapsed, eventsLeft>>

ResetCall ==
    \E ref \in {o \in Objs : Usable(o)} \cup {NoObj} :
        LET st == resetAllCameras(ref, Here)
        IN  /\ Becomes(st)
            /\ ret' = [op |-> "reset", arg |-> ref, result |-> st.result]
            /\ UNCHANGED <<pixelVars, toolVars>>
            /\ UNCHANGED <<viewers, isEnabled, elapsed, eventsLeft>>

FireTimer ==
    /\ Runnable(timers)
    /\ Becomes(Callback(Head(timers), [Here EXCEPT !.timers = Tail(timers)]))
    /\ ret' = NoCall
    /\ UNCHANGED <<pixelVars, toolVars>>
    /\ UNCHANGED <<viewers, isEnabled, elapsed, eventsLeft>>

\* Time passes until the next pending callback is due or, with none pending,
\* until every throttle window has passed.
Tick ==
    LET d == NextDue(timers)
    IN  /\ timers' = Elapse(timers, d)
        /\ elapsed' = [o \in Objs |-> Saturate(elapsed[o] + d)]
        /\ ret' = NoCall
        /\ UNCHANGED <<pixelVars, toolVars>>
        /\ UNCHANGED <<viewers, camera, controls, isSyncing, isEnabled,
                       eventsLeft>>

\* OrbitControls moves its camera on user input only while it is enabled; the
\* user reaches the viewers that are mounted, which are the registered ones.
CanMove(o) ==
    Registered(o) /\ Usable(o) /\ ~UpdateThrows(o) /\ controls[o].enabled

Moved(o, k, st) ==
    [st EXCEPT !.camera[o] = CopyCamera(Pose(k)),
               !.controls[o].target = Pose(k).target]

Interact ==
    \E o \in Objs, k \in PoseIds :
        /\ CanMove(o)
        /\ Snapshot(Here, o) # Pose(k)
        /\ Becomes(Moved(o, k, Here))
        /\ ret' = NoCall
        /\ UNCHANGED <<pixelVars, toolVars>>
        /\ UNCHANGED <<viewers, isEnabled, elapsed, eventsLeft>>

Init ==
    /\ viewers = <<>>
    /\ camera = [o \in Objs |-> CopyCamera(Pose(0))]
    /\ controls = [o \in Objs |-> [target |-> Pose(0).target, enabled |-> TRUE]]
    /\ isSyncing = FALSE
    /\ isEnabled = FALSE
    /\ timers = <<>>
    /\ elapsed = [o \in Objs |-> Saturate(syncDelay + 1)]
    /\ eventsLeft = MaxEvents
    /\ ret = NoCall
    /\ NothingCaptured
    /\ NothingRunning

Next ==
    \/ Register
    \/ Unregister
    \/ SyncCall
    \/ ResetCall
    \/ FireTimer
    \/ Tick
    \/ Interact

Spec == Init /\ [][Next]_vars

(***************************************************************************)
(* ModelViewer: the two mounted viewers of the application, their          *)
(* throttled handleChange, and the user's interaction events.              *)
(***************************************************************************)
Mounted == {"a1", "b1"}

\* The objects with the listeners of the mounted viewers attached.
Listening == [Here EXCEPT !.listeners = Mounted]

\* A drag, wheel or touch event on viewer o: OrbitControls moves the camera
\* when enabled, and the canvas listeners call handleChange either way.
UserEvent ==
    \E o \in Mounted, k \in PoseIds :
        LET moved == IF controls[o].enabled
                     THEN Moved(o, k, Listening) ELSE Listening
            h == handleChange(o, moved)
        IN  /\ eventsLeft > 0
            /\ eventsLeft' = eventsLeft - 1
            /\ Becomes(h)
            /\ elapsed' = h.elapsed
            /\ ret' = [op |-> "event", arg |-> o, result |-> h.result]
            /\ coasting' = IF controls[o].enabled
                           THEN coasting \cup {o} ELSE coasting
            /\ UNCHANGED pixelVars
            /\ UNCHANGED <<viewers, isEnabled, capture, pageVars, batchVars>>

ViewerInit ==
    /\ viewers = <<[id |-> "a", viewer |-> "a1"], [id |-> "b", viewer |-> "b1"]>>
    /\ camera = [o \in Objs |-> CopyCamera(Pose(0))]
    /\ controls = [o \in Objs |-> [target |-> Pose(0).target, enabled |-> TRUE]]
    /\ isSyncing = FALSE
    /\ isEnabled = FALSE
    /\ timers = <<>>
    /\ elapsed = [o \in Objs |-> Saturate(syncDelay + 1)]
    /\ eventsLeft = MaxEvents
    /\ ret = NoCall
    /\ NothingCaptured
    /\ NothingRunning

ViewerNext ==
    \/ UserEvent
    \/ FireTimer
    \/ Tick

ViewerSpec == ViewerInit /\ [][ViewerNext]_vars

(***************************************************************************)
(* The CameraSync class of ReportService.js: an array registry, a toggle,  *)
(* and one pairwise copy per target.                                       *)
(***************************************************************************)
ArrayObjs == {"a1", "a2", "b1", "c1"}

\* this.viewers.push({ viewer, id })
Push(reg, id, o) == Append(reg, [id |-> id, viewer |-> o])

ArrayRegister ==
    \E o \in ArrayObjs :
        /\ Len(viewers) < MaxViewers
        /\ viewers' = Push(viewers, TypeOf(o), o)
        /\ ret' = NoCall
        /\ UNCHANGED <<pixelVars, toolVars>>
        /\ UNCHANGED <<camera, controls, isSyncing, isEnabled, timers,
                       elapsed, eventsLeft>>

\* this.viewers.filter(v => v.id !== id)
ArrayUnregister ==
    \E id \in Ids :
        /\ viewers' = MapDelete(viewers, id)
        /\ ret' = NoCall
        /\ UNCHANGED <<pixelVars, toolVars>>
        /\ UNCHANGED <<camera, controls, isSyncing, isEnabled, timers,
                       elapsed, eventsLeft>>

Toggle ==
    /\ isEnabled' = ~isEnabled
    /\ ret' = NoCall
    /\ UNCHANGED <<pixelVars, toolVars>>
    /\ UNCHANGED <<viewers, camera, controls, isSyncing, timers, elapsed,
                   eventsLeft>>

\* The pairwise copy leaves the target's zoom alone.
CopyPair(values, cam) ==
    [position |-> values.position, quaternion |-> values.quaternion,
     fov |-> values.fov, zoom |-> cam.zoom]

syncCameraFromSource(sourceId, targetId, st) ==
    LET sourceViewer == Get(viewers, sourceId)
        targetViewer == Get(viewers, targetId)
    IN  IF ~isEnabled \/ st.isSyncing
        THEN [st EXCEPT !.result = "dropped"]
        ELSE IF \/ sourceViewer = NoObj
                \/ targetViewer = NoObj
                \/ ~Usable(sourceViewer)
                \/ ~Usable(targetViewer)
        THEN [st EXCEPT !.isSyncing = FALSE, !.result = "nosource"]
        ELSE LET values == Snapshot(st, sourceViewer)
             IN  [st EXCEPT
                    !.isSyncing = TRUE,
                    !.camera[targetViewer] =
                        CopyPair(values, st.camera[targetViewer]),
                    !.controls[targetViewer] =
                        [target |-> values.target, enabled |-> FALSE],
                    !.timers = SetTimeout(st.timers, "reenableAndClear",
                                          targetViewer, TRUE, ArrayDelay),
                    !.result = "propagated"]

\* syncAllFromSource: one syncCameraFromSource per entry of another id.
RECURSIVE SyncAll(_, _, _)
SyncAll(i, sourceId, st) ==
    IF i > Len(viewers)
    THEN st
    ELSE IF viewers[i].id = sourceId
         THEN SyncAll(i + 1, sourceId, st)
         ELSE SyncAll(i + 1, sourceId,
                      LET one == syncCameraFromSource(sourceId, viewers[i].id,
                                                      st)
                      IN  IF st.result = "propagated"
                          THEN [one EXCEPT !.result = "propagated"]
                          ELSE one)

syncAllFromSource(sourceId, st) == SyncAll(1, sourceId, st)

SyncAllCall ==
    \E id \in Ids :
        LET st == syncAllFromSource(id, Here)
        IN  /\ Becomes(st)
            /\ ret' = [op |-> "syncAll", arg |-> id, result |-> st.result]
            /\ UNCHANGED <<pixelVars, toolVars>>
            /\ UNCHANGED <<viewers, isEnabled, elapsed, eventsLeft>>

ArrayInteract ==
    \E o \in ArrayObjs, k \in PoseIds :
        /\ CanMove(o)
        /\ Snapshot(Here, o) # Pose(k)
        /\ Becomes(Moved(o, k, Here))
        /\ ret' = NoCall
        /\ UNCHANGED <<pixelVars, toolVars>>
        /\ UNCHANGED <<viewers, isEnabled, elapsed, eventsLeft>>

ArrayNext ==
    \/ ArrayRegister
    \/ ArrayUnregister
    \/ Toggle
    \/ SyncAllCall
    \/ ArrayInteract
    \/ FireTimer
    \/ Tick

ArraySpec == Init /\ [][ArrayNext]_vars

(***************************************************************************)
(* Pixel comparison.  Channel values are integers 0..255 in flat RGBA      *)
(* arrays; thresholds are kept in hundredths (0.05 is 5, 0.1 is 10), and a *)
(* percentage p is kept as the integer p * totalPixels.                    *)
(***************************************************************************)
DefaultThreshold == 10

\* The thresholds a caller supplies.
Thresholds == {0, 5, 10, 100}

\* The shades the captured images are made of.
Shades == <<0, 20, 255>>

Patterns == {"black", "dim", "white", "red", "ramp"}

\* The colour of pixel p of a pattern; the ramp differs from pixel to pixel.
Colour(pattern, p) ==
    CASE pattern = "black" -> <<Shades[1], Shades[1], Shades[1]>>
      [] pattern = "dim" -> <<Shades[2], Shades[2], Shades[2]>>
      [] pattern = "white" -> <<Shades[3], Shades[3], Shades[3]>>
      [] pattern = "red" -> <<Shades[3], Shades[1], Shades[1]>>
      [] OTHER -> LET shade == Shades[(p % Len(Shades)) + 1]
                  IN  <<shade, shade, shade>>

\* A captured image: row-major RGBA data, alpha 255.
Image(width, height, pattern) ==
    [width |-> width, height |-> height,
     data |-> [j \in 1..(4 * width * height) |->
                  IF (j - 1) % 4 = 3
                  THEN 255
                  ELSE Colour(pattern, (j - 1) \div 4)[((j - 1) % 4) + 1]]]

\* img[i] of a JavaScript array.
At(data, i) == IF i < Len(data) THEN data[i + 1] ELSE Undefined

Abs(n) == IF n < 0 THEN 0 - n ELSE n

Min(a, b) == IF a < b THEN a ELSE b

\* options.threshold === undefined ? 0.1 : options.threshold
DefaultedThreshold(t) == IF t = Undefined THEN DefaultThreshold ELSE t

\* options?.threshold || 0.1
FalsyDefaultedThreshold(t) ==
    IF t = Undefined \/ t = 0 THEN DefaultThreshold ELSE t

\* 1000 times the weighted sum under the square root.
Weighted(deltaR, deltaG, deltaB) ==
    299 * deltaR * deltaR + 587 * deltaG * deltaG + 114 * deltaB * deltaB

\* Faulty variant: a pixel at the threshold counts as different.
PerceptualDiffersOrEqual(data1, data2, i, t) ==
    LET r1 == At(data1, i)
        g1 == At(data1, i + 1)
        b1 == At(data1, i + 2)
        r2 == At(data2, i)
        g2 == At(data2, i + 1)
        b2 == At(data2, i + 2)
    IN  /\ Undefined \notin {r1, g1, b1, r2, g2, b2}
        /\ 10 * Weighted(r1 - r2, g1 - g2, b1 - b2) >= 65025 * t * t

\* diff > threshold for the pixel at index i, where
\* diff = sqrt(0.299 dR^2 + 0.587 dG^2 + 0.114 dB^2) / 255; an undefined
\* operand makes diff NaN, and NaN > threshold is false.
PerceptualDiffers(data1, data2, i, t) ==
    LET r1 == At(data1, i)
        g1 == At(data1, i + 1)
        b1 == At(data1, i + 2)
        r2 == At(data2, i)
        g2 == At(data2, i + 1)
        b2 == At(data2, i + 2)
    IN  /\ Undefined \notin {r1, g1, b1, r2, g2, b2}
        /\ 10 * Weighted(r1 - r2, g1 - g2, b1 - b2) > 65025 * t * t

\* Faulty variant: a pixel at the threshold counts as different.
SimpleDiffersOrEqual(data1, data2, i, t) ==
    LET r1 == At(data1, i)
        g1 == At(data1, i + 1)
        b1 == At(data1, i + 2)
        r2 == At(data2, i)
        g2 == At(data2, i + 1)
        b2 == At(data2, i + 2)
    IN  /\ Undefined \notin {r1, g1, b1, r2, g2, b2}
        /\ 100 * (Abs(r1 - r2) + Abs(g1 - g2) + Abs(b1 - b2)) >= 765 * t

\* normalizedDiff > threshold, where normalizedDiff = colorDiff / 765.
SimpleDiffers(data1, data2, i, t) ==
    LET r1 == At(data1, i)
        g1 == At(data1, i + 1)
        b1 == At(data1, i + 2)
        r2 == At(data2, i)
        g2 == At(data2, i + 1)
        b2 == At(data2, i + 2)
    IN  /\ Undefined \notin {r1, g1, b1, r2, g2, b2}
        /\ 100 * (Abs(r1 - r2) + Abs(g1 - g2) + Abs(b1 - b2)) > 765 * t

\* options.diffColor || [255, 0, 0], with the alpha the comparators write.
diffColor == <<255, 0, 0, 255>>

\* The diffColor option that compareImages and compareModels pass.
reportDiffColor == <<0, 255, 0, 255>>

\* 255 * (1 - alpha) + c * alpha with alpha = 0.1, as a Uint8ClampedArray
\* stores it: rounded to the nearest integer, halves to the even one.
Blend(c) ==
    LET q == (2295 + c) \div 10
        r == (2295 + c) % 10
    IN  IF r > 5 \/ (r = 5 /\ q % 2 = 1) THEN q + 1 ELSE q

\* window.pixelmatch: the count it returns and the output it has written
\* into the caller's width x height buffer.
pixelmatch(data1, data2, width, height, t, colour) ==
    LET differs(p) == PerceptualDiffers(data1, data2, 4 * p,
                                        DefaultedThreshold(t))
    IN  [count |-> Cardinality({p \in 0..(width * height - 1) : differs(p)}),
         output |-> [j \in 1..(4 * width * height) |->
                        LET p == (j - 1) \div 4
                            c == (j - 1) % 4
                        IN  IF differs(p) THEN colour[c + 1]
                            ELSE IF c = 3 THEN 255
                            ELSE Blend(At(data1, 4 * p + c))]]

\* The loop of both simplePixelMatch functions: i runs over img1.length, and
\* writes past the end of the output buffer are lost.
SimpleLoop(data1, data2, width, height, t) ==
    LET visited == 0..(((Len(data1) + 3) \div 4) - 1)
        differs(p) == SimpleDiffers(data1, data2, 4 * p, t)
    IN  [count |-> Cardinality({p \in visited : differs(p)}),
         output |-> [j \in 1..(4 * width * height) |->
                        LET p == (j - 1) \div 4
                            c == (j - 1) % 4
                        IN  IF p \notin visited THEN 0
                            ELSE IF differs(p) THEN diffColor[c + 1]
                            ELSE IF c = 3 THEN 255
                            ELSE At(data1, 4 * p + c)]]

\* ComparisonService.simplePixelMatch
simplePixelMatch(data1, data2, width, height, t) ==
    SimpleLoop(data1, data2, width, height, FalsyDefaultedThreshold(t))

\* simplePixelMatch of script.js
scriptSimplePixelMatch(data1, data2, width, height, t) ==
    SimpleLoop(data1, data2, width, height, DefaultedThreshold(t))

\* What a direct call of a comparator was given and returned.
Called(by, width, height, found) ==
    [by |-> by, width |-> width, height |-> height, threshold |-> threshold,
     data1 |-> img1.data, data2 |-> img2.data, diffPixels |-> found.count,
     output |-> found.output, totalPixels |-> Undefined,
     diffPercentage |-> Undefined, similarityPercentage |-> Undefined]

\* totalPixels, diffPercentage and similarityPercentage of a result.
Metrics(by, width, height, t, data1, data2, found) ==
    LET totalPixels == width * height
        diffPercentage == found.count * 100
    IN  [by |-> by, width |-> width, height |-> height, threshold |-> t,
         data1 |-> data1, data2 |-> data2, diffPixels |-> found.count,
         output |-> found.output, totalPixels |-> totalPixels,
         diffPercentage |-> diffPercentage,
         similarityPercentage |-> 100 * totalPixels - diffPercentage]

\* compareImages of compare-models.js: the buffers of the two PNGs are
\* passed whole, with the smaller width and height.  The pixelmatch package
\* it calls is not part of the repository; the repository's own
\* implementation of that interface stands for it.
compareImages(i1, i2, t) ==
    LET width == Min(i1.width, i2.width)
        height == Min(i1.height, i2.height)
    IN  Metrics("compareImages", width, height, t, i1.data, i2.data,
                pixelmatch(i1.data, i2.data, width, height, t,
                           reportDiffColor))

RECURSIVE Sum(_, _)
Sum(f, S) ==
    IF S = {}
    THEN 0
    ELSE LET e == CHOOSE e \in S : TRUE
         IN  f[e] + Sum(f, S \ {e})

\* The source columns (or rows) that destination column x of w covers.
Covers(x, from, w) == ((x * from) \div w)..(((x + 1) * from - 1) \div w)

\* ctx.drawImage(img, 0, 0, width, height) followed by getImageData: the
\* whole image is scaled into the width x height canvas, each destination
\* pixel taking the mean of the source pixels it covers.
drawImage(img, width, height) ==
    [j \in 1..(4 * width * height) |->
        LET p == (j - 1) \div 4
            c == (j - 1) % 4
            block == Covers(p % width, img.width, width)
                     \X Covers(p \div width, img.height, height)
            value == [e \in block |->
                         At(img.data, (e[2] * img.width + e[1]) * 4 + c)]
        IN  Sum(value, block) \div Cardinality(block)]

\* ModelComparator.compareModels, from the loaded images on.
compareModels(i1, i2, t) ==
    LET width == Min(i1.width, i2.width)
        height == Min(i1.height, i2.height)
        imageData1 == drawImage(i1, width, height)
        imageData2 == drawImage(i2, width, height)
    IN  Metrics("compareModels", width, height, t, imageData1, imageData2,
                pixelmatch(imageData1, imageData2, width, height, t,
                           reportDiffColor))

\* The width and height a caller passes: those of the first image, or those
\* of the region the two images share.
Passed ==
    {<<img1.width, img1.height>>,
     <<Min(img1.width, img2.width), Min(img1.height, img2.height)>>}

CallPixelmatch ==
    \E wh \in Passed :
        /\ comparison' = Called("pixelmatch", wh[1], wh[2],
                                pixelmatch(img1.data, img2.data, wh[1], wh[2],
                                           threshold, diffColor))
        /\ UNCHANGED <<img1, img2, threshold>>
        /\ UNCHANGED <<syncVars, toolVars>>

CallSimplePixelMatch ==
    \E wh \in Passed :
        /\ comparison' = Called("simplePixelMatch", wh[1], wh[2],
                                simplePixelMatch(img1.data, img2.data, wh[1],
                                                 wh[2], threshold))
        /\ UNCHANGED <<img1, img2, threshold>>
        /\ UNCHANGED <<syncVars, toolVars>>

CallScriptSimplePixelMatch ==
    \E wh \in Passed :
        /\ comparison' = Called("scriptSimplePixelMatch", wh[1], wh[2],
                                scriptSimplePixelMatch(img1.data, img2.data,
                                                       wh[1], wh[2], threshold))
        /\ UNCHANGED <<img1, img2, threshold>>
        /\ UNCHANGED <<syncVars, toolVars>>

CompareImages ==
    /\ comparison' = compareImages(img1, img2, threshold)
    /\ UNCHANGED <<img1, img2, threshold>>
    /\ UNCHANGED <<syncVars, toolVars>>

CompareModels ==
    /\ comparison' = compareModels(img1, img2, threshold)
    /\ UNCHANGED <<img1, img2, threshold>>
    /\ UNCHANGED <<syncVars, toolVars>>

Sides == 1..MaxSide

PixelInit ==
    /\ viewers = <<>>
    /\ camera = [o \in Objs |-> CopyCamera(Pose(0))]
    /\ controls = [o \in Objs |-> [target |-> Pose(0).target, enabled |-> TRUE]]
    /\ isSyncing = FALSE
    /\ isEnabled = FALSE
    /\ timers = <<>>
    /\ elapsed = [o \in Objs |-> Saturate(syncDelay + 1)]
    /\ eventsLeft = MaxEvents
    /\ ret = NoCall
    /\ \E w \in Sides, h \in Sides, pattern \in Patterns :
           img1 = Image(w, h, pattern)
    /\ \E w \in Sides, h \in Sides, pattern \in Patterns :
           img2 = Image(w, h, pattern)
    /\ threshold \in Thresholds \cup {Undefined}
    /\ comparison = NoComparison
    /\ NothingRunning

PixelNext ==
    \/ CallPixelmatch
    \/ CallSimplePixelMatch
    \/ CallScriptSimplePixelMatch
    \/ CompareImages
    \/ CompareModels

PixelSpec == PixelInit /\ [][PixelNext]_vars

(***************************************************************************)
(* ComparisonService.compareModels (CameraSync.js) on the two mounted       *)
(* viewers.  It copies the original camera's position and quaternion onto  *)
(* the comparison camera, disables both controls, waits for the second     *)
(* animation frame, reads both canvases, enables both controls and then    *)
(* processes the two images.  Each animation frame runs the render loop of *)
(* every mounted viewer and then the callback compareModels requested;     *)
(* timers and input events run between frames.                             *)
(***************************************************************************)
Original == "a1"
Comparison == "b1"

\* compareModels up to its await.
Begin(st) ==
    [st EXCEPT !.camera[Comparison].position = st.camera[Original].position,
               !.camera[Comparison].quaternion = st.camera[Original].quaternion,
               !.controls[Original].enabled = FALSE,
               !.controls[Comparison].enabled = FALSE]

\* compareModels after its await: a toDataURL that throws leaves the function
\* before the controls are enabled.
Resume(readable, st) ==
    IF readable
    THEN [st EXCEPT !.controls[Original].enabled = TRUE,
                    !.controls[Comparison].enabled = TRUE]
    ELSE st

\* One turn of viewer o's render loop.  controls.update() applies what is left
\* of a damped motion, enabled or not, taking the camera to pose k and
\* dispatching 'change'; then the scene is rendered.
animate(o, k, st) ==
    IF o \in coasting /\ Snapshot(st, o) # Pose(k)
    THEN handleChange(o, Moved(o, k, st))
    ELSE st

StartCompare ==
    /\ capture.pc \in {"idle", "resolved", "rejected"}
    /\ Becomes(Begin(Here))
    /\ capture' = [pc |-> "frame1", rendered |-> {}]
    /\ ret' = NoCall
    /\ UNCHANGED pixelVars
    /\ UNCHANGED <<viewers, isEnabled, elapsed, eventsLeft, coasting, pageVars,
                   batchVars>>

\* An animation frame: the render loops in the order the viewers were mounted,
\* then the requestAnimationFrame callback of compareModels, whose second run
\* resolves the awaited promise.
Frame ==
    \E ka, kb \in PoseIds, stays \in SUBSET coasting, readable \in BOOLEAN :
        LET first == animate(Original, ka, Listening)
            second == animate(Comparison, kb, first)
            waiting == capture.pc \in {"frame1", "frame2"}
            st == IF capture.pc = "frame2" THEN Resume(readable, second)
                  ELSE second
        IN  /\ Becomes(st)
            /\ elapsed' = st.elapsed
            /\ coasting' = stays
            /\ capture' =
                   [pc |-> CASE capture.pc = "frame1" -> "frame2"
                             [] capture.pc = "frame2" ->
                                    IF readable THEN "processing" ELSE "rejected"
                             [] OTHER -> capture.pc,
                    rendered |-> IF waiting THEN Mounted ELSE capture.rendered]
            /\ ret' = NoCall
            /\ UNCHANGED pixelVars
            /\ UNCHANGED <<viewers, isEnabled, eventsLeft, pageVars, batchVars>>

\* processImageComparison settles: the images load and are compared, or an
\* image fails to load.
FinishProcessing ==
    \E loaded \in BOOLEAN :
        /\ capture.pc = "processing"
        /\ capture' = [capture EXCEPT
                          !.pc = IF loaded THEN "resolved" ELSE "rejected"]
        /\ ret' = NoCall
        /\ UNCHANGED <<viewers, camera, controls, isSyncing, isEnabled, timers,
                       elapsed, eventsLeft, pixelVars, coasting, pageVars,
                   batchVars>>

CaptureNext ==
    \/ UserEvent
    \/ FireTimer
    \/ Tick
    \/ StartCompare
    \/ Frame
    \/ FinishProcessing

CaptureSpec == ViewerInit /\ [][CaptureNext]_vars

(***************************************************************************)
(* The standalone page (src/unnamed/part_002): two ModelViewers            *)
(* (src/unnamed/part_003), a ModelComparator (src/js/ModelComparator.js)   *)
(* and the Compare button.  A load handler reads the dropped file, calls   *)
(* loadModel, which removes the viewer's model before it awaits the        *)
(* loader, and updates the button when loadModel reports success.  At most *)
(* one load per viewer is in flight.  The other two browser entry points   *)
(* of a comparison, compareModels of src/script.js and                     *)
(* ComparisonService.processImageComparison, are steps of their own.       *)
(***************************************************************************)
\* The values of the threshold slider, in hundredths.
SliderValues == {5, 10}

hasModel(v) == model[v]

\* updateCompareButton: what compareBtn.disabled becomes when the viewers
\* hold the models m.
updateCompareButton(m) == \E v \in PageViewers : ~m[v]

\* A file is dropped on viewer v: the handler awaits readFileAsArrayBuffer.
LoadStart ==
    \E v \in PageViewers :
        /\ loading[v] = "idle"
        /\ loading' = [loading EXCEPT ![v] = "reading"]
        /\ UNCHANGED <<syncVars, pixelVars, captureVars, batchVars, model,
                       compareBtnDisabled, comparator, pixelmatchLoaded, entry>>

\* The file has been read and loadModel runs up to its await, or the read
\* fails and the handler reports the error.
FileRead ==
    \E v \in PageViewers, read \in BOOLEAN :
        /\ loading[v] = "reading"
        /\ loading' = [loading EXCEPT ![v] = IF read THEN "loading" ELSE "idle"]
        /\ model' = [model EXCEPT ![v] = IF read THEN FALSE ELSE model[v]]
        /\ UNCHANGED <<syncVars, pixelVars, captureVars, batchVars, compareBtnDisabled,
                       comparator, pixelmatchLoaded, entry>>

\* The loader settles: with a parsed scene loadModel sets this.model and
\* returns true, and the handler updates the button; otherwise loadModel
\* returns false and the handler does nothing more.
LoadSettled ==
    \E v \in PageViewers, parsed \in BOOLEAN :
        /\ loading[v] = "loading"
        /\ loading' = [loading EXCEPT ![v] = "idle"]
        /\ model' = [model EXCEPT ![v] = parsed]
        /\ compareBtnDisabled' =
               IF parsed THEN updateCompareButton(model')
               ELSE compareBtnDisabled
        /\ UNCHANGED <<syncVars, pixelVars, captureVars, batchVars, comparator,
                       pixelmatchLoaded, entry>>

\* Faulty variant: the call that gives up stores a result.
CapturedStoresPartial(c, captured) ==
    IF captured
    THEN [c EXCEPT !.pc = "loading", !.attempts = c.attempts + 1]
    ELSE IF c.attempts = 0
    THEN [c EXCEPT !.pc = "waiting", !.attempts = 1]
    ELSE [c EXCEPT !.pc = "idle", !.attempts = c.attempts + 1,
                   !.outcome = "threw", !.last = c.threshold]

\* compareModels after a capture of both screenshots: the first failure is
\* caught and followed by a 500 ms wait, the second leaves the function
\* through the outer catch.
Captured(c, captured) ==
    IF captured
    THEN [c EXCEPT !.pc = "loading", !.attempts = c.attempts + 1]
    ELSE IF c.attempts = 0
    THEN [c EXCEPT !.pc = "waiting", !.attempts = 1]
    ELSE [c EXCEPT !.pc = "idle", !.attempts = c.attempts + 1,
                   !.outcome = "threw"]

\* What is left of compareModels once both images have loaded: without
\* pixelmatch it throws, with it the result is stored and returned.
Compared(c) ==
    IF pixelmatchLoaded
    THEN [c EXCEPT !.pc = "idle", !.outcome = "returned",
                   !.last = c.threshold]
    ELSE [c EXCEPT !.pc = "idle", !.outcome = "threw"]

\* The click handler of the Compare button up to the first macrotask it
\* waits for.  compareModels throws before its try when a viewer has no
\* model; the handler's finally enables the button.
CompareClick ==
    \E t \in SliderValues, captured \in BOOLEAN :
        LET valid == \A v \in PageViewers : hasModel(v)
            c == Captured([comparator EXCEPT !.threshold = t, !.attempts = 0,
                                             !.outcome = "none"],
                          captured)
        IN  /\ ~compareBtnDisabled
            /\ comparator.pc = "idle"
            /\ comparator' = IF valid THEN c
                             ELSE [comparator EXCEPT !.attempts = 0,
                                                     !.outcome = "threw"]
            /\ compareBtnDisabled' = valid
            /\ UNCHANGED <<syncVars, pixelVars, captureVars, batchVars, model, loading,
                           pixelmatchLoaded, entry>>

\* The 500 ms have passed and the screenshots are captured again.
RetryCapture ==
    \E captured \in BOOLEAN :
        LET c == Captured(comparator, captured)
        IN  /\ comparator.pc = "waiting"
            /\ comparator' = c
            /\ compareBtnDisabled' = IF c.pc = "idle" THEN FALSE
                                     ELSE compareBtnDisabled
            /\ UNCHANGED <<syncVars, pixelVars, captureVars, batchVars, model, loading,
                           pixelmatchLoaded, entry>>

\* Both images load and are compared, or an image fails to load.
ImagesLoaded ==
    \E loaded \in BOOLEAN :
        /\ comparator.pc = "loading"
        /\ comparator' = IF loaded THEN Compared(comparator)
                         ELSE [comparator EXCEPT !.pc = "idle",
                                                 !.outcome = "threw"]
        /\ entry' = IF loaded
                    THEN [by |-> "ModelComparator.compareModels",
                          algorithm |-> IF pixelmatchLoaded THEN "pixelmatch"
                                        ELSE "none",
                          outcome |-> comparator'.outcome]
                    ELSE entry
        /\ compareBtnDisabled' = FALSE
        /\ UNCHANGED <<syncVars, pixelVars, captureVars, batchVars, model, loading,
                       pixelmatchLoaded>>

\* ComparisonService.processImageComparison with both images loaded.
ProcessImageComparison ==
    /\ entry' = [by |-> "ComparisonService.processImageComparison",
                 algorithm |-> IF pixelmatchLoaded THEN "pixelmatch"
                               ELSE "simplePixelMatch",
                 outcome |-> "returned"]
    /\ UNCHANGED <<syncVars, pixelVars, captureVars, batchVars, model, loading,
                   compareBtnDisabled, comparator, pixelmatchLoaded>>

\* compareModels of script.js with both images loaded: a pixelmatch that
\* throws is caught and followed by simplePixelMatch.
ScriptCompare ==
    \E threw \in BOOLEAN :
        /\ entry' = [by |-> "compareModels",
                     algorithm |-> IF pixelmatchLoaded /\ ~threw
                                   THEN "pixelmatch" ELSE "simplePixelMatch",
                     outcome |-> "returned"]
        /\ UNCHANGED <<syncVars, pixelVars, captureVars, batchVars, model, loading,
                       compareBtnDisabled, comparator, pixelmatchLoaded>>

\* The page is loaded, with or without the pixelmatch script.
PageInit ==
    /\ viewers = <<>>
    /\ camera = [o \in Objs |-> CopyCamera(Pose(0))]
    /\ controls = [o \in Objs |-> [target |-> Pose(0).target, enabled |-> TRUE]]
    /\ isSyncing = FALSE
    /\ isEnabled = FALSE
    /\ timers = <<>>
    /\ elapsed = [o \in Objs |-> Saturate(syncDelay + 1)]
    /\ eventsLeft = MaxEvents
    /\ ret = NoCall
    /\ NothingCaptured
    /\ capture = NoCapture
    /\ coasting = {}
    /\ PageLoaded
    /\ pixelmatchLoaded \in BOOLEAN
    /\ cli = NoCli
    /\ batch = NoBatch

PageNext ==
    \/ LoadStart
    \/ FileRead
    \/ LoadSettled
    \/ CompareClick
    \/ RetryCapture
    \/ ImagesLoaded
    \/ ProcessImageComparison
    \/ ScriptCompare

PageSpec == PageInit /\ [][PageNext]_vars

(***************************************************************************)
(* The command line tools.  batch-process.js (src/scripts) plans its       *)
(* comparisons from the GLB files of a directory and an optional reference *)
(* model, and runs them in a loop that awaits each compare-models.js child *)
(* before the next.  compare-models.js validates its two model files,      *)
(* writes temp-compare.html, captures, compares, writes the report and     *)
(* removes the file; its catch removes the file and exits with code 1.     *)
(* Model files are numbered 1..m in directory order; a reference model is  *)
(* one of them or m + 1, a file outside the directory.                     *)
(***************************************************************************)
\* The nested loops of batch-process.js 110-118, from the pair (i, j) on.
RECURSIVE PairsFrom(_, _, _)
PairsFrom(i, j, m) ==
    IF i >= m
    THEN <<>>
    ELSE IF j > m
    THEN PairsFrom(i + 1, i + 2, m)
    ELSE <<[model1 |-> i, model2 |-> j]>> \o PairsFrom(i, j + 1, m)

\* The forEach of batch-process.js 99-107, from model file f on.
RECURSIVE AgainstFrom(_, _, _)
AgainstFrom(f, m, reference) ==
    IF f > m
    THEN <<>>
    ELSE (IF f # reference
          THEN <<[model1 |-> reference, model2 |-> f]>> ELSE <<>>)
         \o AgainstFrom(f + 1, m, reference)

\* The list of comparisons to run; reference 0 is no --reference option.
Plan(m, reference) ==
    IF reference # 0 THEN AgainstFrom(1, m, reference) ELSE PairsFrom(1, 2, m)

\* Faulty variant: the catch block exits without removing the file.
CatchLeavesFile(c) ==
    [c EXCEPT !.pc = "exited", !.code = 1]

\* The catch block of compare-models.js.
Catch(c) ==
    [c EXCEPT !.pc = "exited", !.tempHtml = FALSE, !.code = 1]

\* A step of the try block: done, or thrown into the catch block.
Step(c, name, next, done) ==
    IF done
    THEN [c EXCEPT !.pc = next, !.completed = c.completed \cup {name}]
    ELSE Catch(c)

\* Faulty variant: the result is pushed whatever the exit code.
SettledIgnoresCode(b, code, readable) ==
    [b EXCEPT !.pc = "looping",
              !.closed = Append(b.closed,
                                [code |-> code, readable |-> readable]),
              !.results = IF readable THEN Append(b.results, b.i)
                          ELSE b.results]

\* The 'close' listener of runComparison and the try of the loop around it:
\* the promise rejects on a non-zero code and on a report that cannot be
\* read or parsed, and only a resolved comparison is pushed to results.
Settled(b, code, readable) ==
    [b EXCEPT !.pc = "looping",
              !.closed = Append(b.closed,
                                [code |-> code, readable |-> readable]),
              !.results = IF code = 0 /\ readable THEN Append(b.results, b.i)
                          ELSE b.results]

\* The loop takes the next comparison and runComparison spawns its child; the
\* two model files may have gone since the directory was listed.
Spawn ==
    \E exists1, exists2 \in BOOLEAN :
        /\ batch.pc = "looping"
        /\ batch.i < Len(batch.comparisons)
        /\ batch' = [batch EXCEPT !.pc = "awaiting", !.i = batch.i + 1]
        /\ cli' = [NoCli EXCEPT !.pc = "validate", !.exists1 = exists1,
                                !.exists2 = exists2]
        /\ UNCHANGED <<syncVars, pixelVars, captureVars, pageVars>>

\* compare-models.js 66-75.
Validate ==
    /\ cli.pc = "validate"
    /\ cli' = IF cli.exists1 /\ cli.exists2
              THEN [cli EXCEPT !.pc = "createTempHtml"]
              ELSE [cli EXCEPT !.pc = "exited", !.code = 1]
    /\ UNCHANGED <<syncVars, pixelVars, captureVars, pageVars, batch>>

\* compare-models.js 78-79, outside the try: an exception of writeFileSync is
\* not caught and ends the process with code 1, no file written.
CreateTempHtml ==
    \E written \in BOOLEAN :
        /\ cli.pc = "createTempHtml"
        /\ cli' = IF written
                  THEN [cli EXCEPT !.pc = "capture", !.tempHtml = TRUE,
                                   !.created = TRUE]
                  ELSE [cli EXCEPT !.pc = "exited", !.code = 1]
        /\ UNCHANGED <<syncVars, pixelVars, captureVars, pageVars, batch>>

\* captureModelScreenshots.
CaptureScreenshots ==
    \E done \in BOOLEAN :
        /\ cli.pc = "capture"
        /\ cli' = Step(cli, "capture", "compare", done)
        /\ UNCHANGED <<syncVars, pixelVars, captureVars, pageVars, batch>>

\* compareImages, which also writes the difference image.
CompareScreenshots ==
    \E done \in BOOLEAN :
        /\ cli.pc = "compare"
        /\ cli' = Step(cli, "compare", "report", done)
        /\ UNCHANGED <<syncVars, pixelVars, captureVars, pageVars, batch>>

\* generateReport and the write of the report.
SaveReport ==
    \E done \in BOOLEAN :
        /\ cli.pc = "report"
        /\ cli' = [Step(cli, "report", "cleanup", done) EXCEPT !.report = done]
        /\ UNCHANGED <<syncVars, pixelVars, captureVars, pageVars, batch>>

\* The end of the try block: the file is removed and the process ends.
Cleanup ==
    /\ cli.pc = "cleanup"
    /\ cli' = [cli EXCEPT !.pc = "exited", !.tempHtml = FALSE, !.code = 0]
    /\ UNCHANGED <<syncVars, pixelVars, captureVars, pageVars, batch>>

\* The child has closed; the report file may or may not be read and parsed.
Close ==
    \E readable \in BOOLEAN :
        /\ batch.pc = "awaiting"
        /\ cli.pc = "exited"
        /\ batch' = Settled(batch, cli.code, readable)
        /\ UNCHANGED <<syncVars, pixelVars, captureVars, pageVars, cli>>

\* The loop has ended: the summary report is written.
WriteSummary ==
    /\ batch.pc = "looping"
    /\ batch.i = Len(batch.comparisons)
    /\ batch' = [batch EXCEPT
                    !.pc = "done",
                    !.summary = {batch.results[k] : k \in 1..Len(batch.results)}]
    /\ UNCHANGED <<syncVars, pixelVars, captureVars, pageVars, cli>>

\* batch-process.js past its validation: a directory of m GLB files, two or
\* more unless a reference model is given.
BatchInit ==
    /\ viewers = <<>>
    /\ camera = [o \in Objs |-> CopyCamera(Pose(0))]
    /\ controls = [o \in Objs |-> [target |-> Pose(0).target, enabled |-> TRUE]]
    /\ isSyncing = FALSE
    /\ isEnabled = FALSE
    /\ timers = <<>>
    /\ elapsed = [o \in Objs |-> Saturate(syncDelay + 1)]
    /\ eventsLeft = MaxEvents
    /\ ret = NoCall
    /\ NothingCaptured
    /\ capture = NoCapture
    /\ coasting = {}
    /\ PageLoaded
    /\ pixelmatchLoaded = TRUE
    /\ cli = NoCli
    /\ \E m \in 1..MaxModels, reference \in 0..(MaxModels + 1) :
           /\ reference <= m + 1
           /\ reference # 0 \/ m >= 2
           /\ batch = [NoBatch EXCEPT !.pc = "looping",
                                      !.comparisons = Plan(m, reference)]

BatchNext ==
    \/ Spawn
    \/ Validate
    \/ CreateTempHtml
    \/ CaptureScreenshots
    \/ CompareScreenshots
    \/ SaveReport
    \/ Cleanup
    \/ Close
    \/ WriteSummary

BatchSpec == BatchInit /\ [][BatchNext]_vars

(***************************************************************************)
(* Properties.                                                             *)
(***************************************************************************)
\* The objects, queue and guard after the step.
There == [camera |-> camera', controls |-> controls', timers |-> timers',
          isSyncing |-> isSyncing', result |-> "none", elapsed |-> elapsed',
          listeners |-> {}]

Pending(fn) == {i \in 1..Len(timers) : timers[i].fn = fn}

\* The step is a call of syncFromSource or resetAllCameras.
IsCall == ret'.op \in {"sync", "reset"}

\* The usable viewers in the registry, other than the one registered as id.
Others(id) ==
    {viewers[i].viewer : i \in {j \in 1..Len(viewers) :
                                    viewers[j].id # id /\ Usable(viewers[j].viewer)}}

\* C1: while isSyncing is set, a call of syncFromSource or resetAllCameras
\* changes no camera field, pan target or enabled flag, leaves the registry
\* and the callback queue as they are, and leaves isSyncing set.
C1_GuardedCallChangesNothing ==
    [][(isSyncing /\ IsCall) =>
          /\ camera' = camera
          /\ controls' = controls
          /\ viewers' = viewers
          /\ timers' = timers
          /\ isSyncing']_vars

\* A syncFromSource call was dropped while a target differed from the source.
C1_Witness ==
    /\ isSyncing
    /\ ret.op = "sync"
    /\ ret.result = "dropped"
    /\ Usable(Get(viewers, ret.arg))
    /\ \E t \in Others(ret.arg) :
           Snapshot(Here, t) # Snapshot(Here, Get(viewers, ret.arg))

\* C2: with the guard clear and a usable source, syncFromSource leaves every
\* other usable registered viewer with the source's position, quaternion,
\* fov, zoom and target as they were at the call, and writes no viewer
\* outside the registry.
C2_TargetsHoldSourceValues ==
    [][(~isSyncing /\ ret'.op = "sync" /\ Usable(Get(viewers, ret'.arg))) =>
          /\ \A t \in Others(ret'.arg) :
                 Snapshot(There, t) = Snapshot(Here, Get(viewers, ret'.arg))
          /\ \A o \in Objs :
                 ~Registered(o) =>
                     camera'[o] = camera[o] /\ controls'[o] = controls[o]]_vars

\* C3: at most one guard-clear callback is pending, and while one is pending
\* the guard is set, so that no second propagation is accepted.
C3_OnePropagationInFlight ==
    /\ Cardinality(Pending("clearGuard")) <= 1
    /\ Pending("clearGuard") # {} => isSyncing

\* A second propagation was asked for and refused while one was in flight.
C3_Witness ==
    /\ Cardinality(Pending("clearGuard")) = 1
    /\ ret.result = "dropped"

\* C4: once interaction has stopped and every deferred callback has run, the
\* mounted viewers hold the same camera state, the one of the last viewer
\* that moved: no dropped sync request is lost.
C4_LatestStateReachesAll ==
    (eventsLeft = 0 /\ timers = <<>> /\ ~isSyncing) =>
        \A o \in Mounted, t \in Mounted : Snapshot(Here, o) = Snapshot(Here, t)

\* C5: a deferred callback leaves the controls of every viewer that is no
\* longer registered as they are.
C5_CallbackSkipsUnregistered ==
    [][Len(timers') < Len(timers) =>
          \A o \in Objs : ~Registered(o) => controls'[o] = controls[o]]_vars

\* C6: the guard is never left set for good: whenever isSyncing is set, the
\* callback that clears it is pending.
C6_GuardIsCleared ==
    isSyncing => Pending("clearGuard") # {}

\* C7: the guard is cleared only after every re-enable callback has run:
\* while a re-enable callback is pending the guard is set, so no propagation
\* is accepted while a controller is still disabled by the previous one.
C7_GuardOutlastsReenable ==
    Pending("reenable") # {} => isSyncing

\* The re-enable callbacks of a propagation have run, its guard-clear
\* callback is due and has not run yet, and the target is enabled again.
C7_Witness ==
    /\ isSyncing
    /\ Pending("reenable") = {}
    /\ Len(timers) = 1
    /\ timers[1].left = 0
    /\ \E t \in Objs : Registered(t) /\ Usable(t) /\ controls[t].enabled
                       /\ Snapshot(Here, t) # Pose(0)

\* C8 as stated: syncFromSource of an id that is not registered, or whose
\* viewer has no camera or no controls, changes no viewer, does not throw,
\* schedules no callback and returns with isSyncing false.
C8_MissingSourceClearsGuard ==
    [][(ret'.op = "sync" /\ ~Usable(Get(viewers, ret'.arg))) =>
          /\ camera' = camera
          /\ controls' = controls
          /\ timers' = timers
          /\ ret'.result # "threw"
          /\ ~isSyncing']_vars

\* C8 as amended: such a call changes no viewer, does not throw, schedules no
\* callback and leaves isSyncing as it found it (false when the guard was
\* clear at the call, true when a propagation was in flight).
C8_MissingSourceIsNoOp ==
    [][(ret'.op = "sync" /\ ~Usable(Get(viewers, ret'.arg))) =>
          /\ camera' = camera
          /\ controls' = controls
          /\ timers' = timers
          /\ ret'.result # "threw"
          /\ isSyncing' = isSyncing]_vars

\* syncFromSource was called with the guard clear for a registered viewer
\* without controls while a usable viewer was registered, and returned.
C8_Witness ==
    /\ ret.op = "sync"
    /\ ret.result = "nosource"
    /\ ~isSyncing
    /\ Get(viewers, ret.arg) # NoObj
    /\ ~HasControls(Get(viewers, ret.arg))
    /\ Others(ret.arg) # {}

\* C9: the registry holds at most one entry per identifier.
C9_OneEntryPerId ==
    \A i \in 1..Len(viewers), j \in 1..Len(viewers) :
        viewers[i].id = viewers[j].id => i = j

\* C10: with the guard clear, resetAllCameras leaves every usable registered
\* viewer with the reference values as they were at the call, its controls
\* disabled, and the guard set.
C10_AllHoldReferenceValues ==
    [][(~isSyncing /\ ret'.op = "reset" /\ ret'.arg # NoObj) =>
          /\ isSyncing'
          /\ \A t \in Others(NoObj) :
                 /\ Snapshot(There, t) = Snapshot(Here, ret'.arg)
                 /\ ~controls'[t].enabled]_vars

\* C11: syncFromSource and resetAllCameras never throw to their caller: a
\* target whose update throws is passed over, and every other usable
\* registered target still receives the values of the call.
C11_CallsNeverThrow ==
    [][(~isSyncing /\ IsCall) =>
          /\ ret'.result # "threw"
          /\ (ret'.op = "sync" /\ Usable(Get(viewers, ret'.arg))) =>
                 \A t \in Others(ret'.arg) :
                     UpdateThrows(t) \/
                     Snapshot(There, t) = Snapshot(Here, Get(viewers, ret'.arg))]_vars

\* C12: an interaction event that propagates causes one propagation and no
\* more: the change raised on each target reaches syncFromSource while the
\* guard is set and is dropped, so the source is not written back (its
\* controls stay as they were and no re-enable is scheduled for it), the
\* targets hold the source's values, and one guard-clear callback is pending.
C12_EchoIsDropped ==
    [][(ret'.op = "event" /\ ret'.result = "propagated") =>
          /\ controls'[ret'.arg].enabled = controls[ret'.arg].enabled
          /\ \A i \in 1..Len(timers') : timers'[i].controls # ret'.arg
          /\ \A t \in Mounted : Snapshot(There, t) = Snapshot(There, ret'.arg)
          /\ Cardinality({i \in 1..Len(timers') :
                              timers'[i].fn = "clearGuard"}) = 1
          /\ Len(timers') = Cardinality(Mounted)]_vars

\* An event on one viewer has propagated, and the handler of the other
\* viewer has run within the same propagation and passed its throttle.
C12_Witness ==
    /\ ret.op = "event"
    /\ ret.result = "propagated"
    /\ isSyncing
    /\ \E t \in Mounted \ {ret.arg} :
           /\ elapsed[t] = 0
           /\ Snapshot(Here, t) = Snapshot(Here, ret.arg)
           /\ Snapshot(Here, t) # Pose(0)

\* C13: a viewer's handleChange calls syncFromSource only when more than
\* syncDelay ms have passed since its previous call, and records the time of
\* every call it makes, also of one that the guard then drops: a handler's
\* lastSyncTime is set only when its throttle window has passed.
C13_CallsAreThrottled ==
    [][/\ (ret'.op = "event" /\ ret'.result # "throttled") =>
              /\ elapsed[ret'.arg] > syncDelay
              /\ elapsed'[ret'.arg] = 0
       /\ (ret'.op = "event" /\ ret'.result = "throttled") =>
              /\ elapsed[ret'.arg] <= syncDelay
              /\ elapsed' = elapsed
       /\ \A o \in Objs :
              elapsed'[o] < elapsed[o] =>
                  elapsed[o] > syncDelay /\ elapsed'[o] = 0]_vars

\* A handler has passed its throttle while a propagation was in flight: its
\* call was dropped by the guard and its lastSyncTime was recorded.
C13_Witness ==
    /\ ret.op = "event"
    /\ ret.result = "dropped"
    /\ isSyncing
    /\ elapsed[ret.arg] = 0
    /\ \E t \in Mounted : Snapshot(Here, t) # Snapshot(Here, ret.arg)

\* C14: a syncFromSource call that is accepted for a usable source leaves
\* the source as it was read, and after the call every other usable
\* registered viewer agrees with the source and with every other target.
C14_TargetsAgreeWithSource ==
    [][(~isSyncing /\ ret'.op = "sync" /\ Usable(Get(viewers, ret'.arg))) =>
          LET source == Get(viewers, ret'.arg)
          IN  /\ Snapshot(There, source) = Snapshot(Here, source)
              /\ \A t \in Others(ret'.arg) :
                     Snapshot(There, t) = Snapshot(There, source)
              /\ \A t \in Others(ret'.arg), u \in Others(ret'.arg) :
                     Snapshot(There, t) = Snapshot(There, u)]_vars

\* The comparator functions and the callers that report metrics.
Comparators == {"pixelmatch", "simplePixelMatch", "scriptSimplePixelMatch"}

Reporters == {"compareImages", "compareModels"}

\* The threshold a comparison is to classify with: the one supplied, or the
\* default when none was.
Supplied == IF comparison.threshold = Undefined
            THEN DefaultThreshold
            ELSE comparison.threshold

\* C15: comparing a buffer with itself gives diffPixels = 0 with the
\* perceptual comparator and with both fallbacks, at every threshold, and a
\* reported similarity of 100 percent.
C15_SelfComparisonIsClean ==
    /\ (comparison.by \in Comparators /\ comparison.data1 = comparison.data2) =>
           comparison.diffPixels = 0
    /\ (comparison.by \in Reporters /\ img1 = img2) =>
           /\ comparison.diffPixels = 0
           /\ comparison.similarityPercentage = 100 * comparison.totalPixels

\* The fallback has compared a 2 x 2 image of several shades with itself at
\* threshold 0.
C15_Witness ==
    /\ comparison.by = "scriptSimplePixelMatch"
    /\ comparison.data1 = comparison.data2
    /\ comparison.threshold = 0
    /\ comparison.width = 2
    /\ comparison.height = 2
    /\ At(comparison.data1, 0) # At(comparison.data1, 4)
    /\ comparison.diffPixels = 0

\* C16: every result has 0 <= diffPixels <= width x height, also that of a
\* fallback given buffers longer than width x height, and a reported result
\* has totalPixels = width x height and percentages that add up to 100.
C16_CountWithinTotal ==
    /\ comparison.by \in Comparators =>
           /\ 0 <= comparison.diffPixels
           /\ comparison.diffPixels <= comparison.width * comparison.height
    /\ comparison.by \in Reporters =>
           /\ comparison.totalPixels = comparison.width * comparison.height
           /\ 0 <= comparison.diffPixels
           /\ comparison.diffPixels <= comparison.totalPixels
           /\ comparison.diffPercentage + comparison.similarityPercentage
                  = 100 * comparison.totalPixels

\* The count a comparator returns for the inputs of the last comparison at
\* threshold t.
CountAt(t) ==
    CASE comparison.by = "pixelmatch" ->
            pixelmatch(comparison.data1, comparison.data2, comparison.width,
                       comparison.height, t, diffColor).count
      [] comparison.by = "simplePixelMatch" ->
            simplePixelMatch(comparison.data1, comparison.data2,
                             comparison.width, comparison.height, t).count
      [] OTHER ->
            scriptSimplePixelMatch(comparison.data1, comparison.data2,
                                   comparison.width, comparison.height,
                                   t).count

\* C17: for fixed buffers, a comparison at a threshold t2 at or above the
\* supplied threshold (0 included) flags no more pixels, with the
\* perceptual comparator and with both fallbacks.
C17_MonotoneInThreshold ==
    (comparison.by \in Comparators /\ comparison.threshold # Undefined) =>
        \A t2 \in Thresholds :
            comparison.threshold <= t2 =>
                CountAt(t2) <= comparison.diffPixels

\* C18: a comparator classifies with the threshold its caller supplied,
\* 0 included, and with the default only when none was supplied.
C18_SuppliedThresholdIsUsed ==
    comparison.by \in Comparators =>
        comparison.diffPixels =
            IF comparison.by = "pixelmatch"
            THEN Cardinality({p \in 0..(comparison.width * comparison.height - 1) :
                     PerceptualDiffers(comparison.data1, comparison.data2,
                                       4 * p, Supplied)})
            ELSE Cardinality({p \in 0..((Len(comparison.data1) \div 4) - 1) :
                     SimpleDiffers(comparison.data1, comparison.data2,
                                   4 * p, Supplied)})

\* C19: images of different sizes are compared on the region they share,
\* unscaled: width and height are the smaller ones, totalPixels is their
\* product, and at every (x, y) of the region the comparator is given pixel
\* (x, y) of the first image and pixel (x, y) of the second.
C19_OverlapIsCompared ==
    comparison.by \in Reporters =>
        /\ comparison.width = Min(img1.width, img2.width)
        /\ comparison.height = Min(img1.height, img2.height)
        /\ comparison.totalPixels = comparison.width * comparison.height
        /\ \A x \in 0..(comparison.width - 1), y \in 0..(comparison.height - 1),
              c \in 0..3 :
               /\ At(comparison.data1, (y * comparison.width + x) * 4 + c)
                      = At(img1.data, (y * img1.width + x) * 4 + c)
               /\ At(comparison.data2, (y * comparison.width + x) * 4 + c)
                      = At(img2.data, (y * img2.width + x) * 4 + c)

\* Pixel p of a flat RGBA array.
PixelOf(data, p) ==
    <<At(data, 4 * p), At(data, 4 * p + 1), At(data, 4 * p + 2),
      At(data, 4 * p + 3)>>

\* sqrt(0.299 dR^2 + 0.587 dG^2 + 0.114 dB^2) / 255 is strictly greater than
\* the threshold at pixel p of the last comparison.
StrictlyAbove(p) ==
    LET one == PixelOf(comparison.data1, p)
        two == PixelOf(comparison.data2, p)
        deltaR == one[1] - two[1]
        deltaG == one[2] - two[2]
        deltaB == one[3] - two[3]
    IN  /\ Undefined \notin {one[1], one[2], one[3], two[1], two[2], two[3]}
        /\ 10 * (299 * deltaR * deltaR + 587 * deltaG * deltaG
                 + 114 * deltaB * deltaB) > 65025 * Supplied * Supplied

\* C20: the perceptual comparator counts a pixel and writes it in the diff
\* colour exactly when its weighted distance is strictly above the
\* threshold, and otherwise writes the first image's pixel blended toward
\* white; the count is the number of pixels written in the diff colour, and
\* black against white, 2 x 2, at threshold 0.1 gives 4.
C20_PerceptualCount ==
    comparison.by = "pixelmatch" =>
        LET pixels == 0..(comparison.width * comparison.height - 1)
        IN  /\ comparison.diffPixels =
                   Cardinality({p \in pixels : StrictlyAbove(p)})
            /\ \A p \in pixels :
                   PixelOf(comparison.output, p) =
                       IF StrictlyAbove(p)
                       THEN <<255, 0, 0, 255>>
                       ELSE <<Blend(At(comparison.data1, 4 * p)),
                              Blend(At(comparison.data1, 4 * p + 1)),
                              Blend(At(comparison.data1, 4 * p + 2)), 255>>
            /\ comparison.diffPixels =
                   Cardinality({p \in pixels :
                                   PixelOf(comparison.output, p)
                                       = <<255, 0, 0, 255>>})
            /\ (/\ comparison.data1 = Image(2, 2, "black").data
                /\ comparison.data2 = Image(2, 2, "white").data
                /\ comparison.width = 2
                /\ comparison.height = 2
                /\ comparison.threshold = 10) => comparison.diffPixels = 4

\* The perceptual comparator has compared a black with a white 2 x 2 image
\* at threshold 0.1 and returned 4.
C20_Witness ==
    /\ comparison.by = "pixelmatch"
    /\ comparison.data1 = Image(2, 2, "black").data
    /\ comparison.data2 = Image(2, 2, "white").data
    /\ comparison.width = 2
    /\ comparison.height = 2
    /\ comparison.threshold = 10
    /\ comparison.diffPixels = 4

\* C26: once every deferred callback of a propagation has run, each target
\* controller has the enabled flag it had before the call (every
\* controller starts enabled and only a propagation disables one, so with
\* no callback pending all are enabled), and syncFromSource never writes the
\* source's camera, pan target or enabled flag.
C26_EnabledFlagRestored ==
    [][/\ timers' = <<>> => \A o \in Objs : controls'[o].enabled
       /\ (ret'.op = "sync" /\ Get(viewers, ret'.arg) # NoObj) =>
              /\ camera'[Get(viewers, ret'.arg)] = camera[Get(viewers, ret'.arg)]
              /\ controls'[Get(viewers, ret'.arg)]
                     = controls[Get(viewers, ret'.arg)]]_vars

\* Every registered viewer exposes a camera and controls, under its own id.
WellFormed ==
    /\ \A i \in 1..Len(viewers) : Usable(viewers[i].viewer)
    /\ \A i, j \in 1..Len(viewers) : viewers[i].id = viewers[j].id => i = j

\* C27: with sync enabled and the guard clear, syncAllFromSource of a
\* registered source leaves every other registered viewer with the source's
\* position, orientation, fov and pan target, however many are registered;
\* with sync disabled it changes no viewer and does not set the guard.
C27_SyncAllReachesEveryViewer ==
    [][ret'.op = "syncAll" =>
          /\ (isEnabled /\ ~isSyncing /\ WellFormed /\ HasId(viewers, ret'.arg)) =>
                 \A t \in Others(ret'.arg) :
                     LET source == Get(viewers, ret'.arg)
                     IN  /\ camera'[t].position = camera[source].position
                         /\ camera'[t].quaternion = camera[source].quaternion
                         /\ camera'[t].fov = camera[source].fov
                         /\ controls'[t].target = controls[source].target
          /\ ~isEnabled =>
                 /\ camera' = camera
                 /\ controls' = controls
                 /\ isSyncing' = isSyncing]_vars

\* C23: from the moment compareModels disables the two controls until both
\* canvases have been read, both controls stay disabled.
C23_DisabledDuringCapture ==
    capture.pc \in {"frame1", "frame2"} =>
        /\ ~controls[Original].enabled
        /\ ~controls[Comparison].enabled

\* C24: when the canvases are read, each viewer has rendered since the camera
\* state was applied and the comparison camera has the original camera's
\* position and orientation.
C24_AlignedAtCapture ==
    [][(capture.pc = "frame2" /\ capture'.pc = "processing") =>
          /\ capture'.rendered = Mounted
          /\ camera'[Comparison].position = camera'[Original].position
          /\ camera'[Comparison].quaternion = camera'[Original].quaternion]_vars

\* C29: once compareModels has resolved or rejected and no callback is pending,
\* both controls are enabled.
C29_EnabledAfterCompare ==
    (capture.pc \in {"resolved", "rejected"} /\ timers = <<>>) =>
        /\ controls[Original].enabled
        /\ controls[Comparison].enabled

\* C21: an entry point that reaches its pixel comparison while pixelmatch is
\* not a function runs the simple absolute-difference algorithm and returns.
C21_FallsBackWithoutPixelmatch ==
    (~pixelmatchLoaded /\ entry.by # "none") =>
        /\ entry.outcome = "returned"
        /\ entry.algorithm = "simplePixelMatch"

\* C22: a failed capture is followed by the wait and exactly one more capture;
\* when that succeeds compareModels goes on to load the images, and when it
\* fails compareModels throws with lastComparisonResult as it was.
C22_CaptureIsRetriedOnce ==
    [][/\ (comparator.pc = "idle" /\ comparator'.pc = "waiting") =>
              /\ comparator'.attempts = 1
              /\ comparator'.last = comparator.last
       /\ (comparator.pc = "waiting" /\ comparator' # comparator) =>
              /\ comparator'.attempts = 2
              /\ comparator'.last = comparator.last
              /\ \/ comparator'.pc = "loading" /\ comparator'.outcome = "none"
                 \/ comparator'.pc = "idle" /\ comparator'.outcome = "threw"]_vars

\* A retry has failed while an earlier result, made with another threshold,
\* was stored.
C22_Witness ==
    /\ comparator.pc = "idle"
    /\ comparator.attempts = 2
    /\ comparator.outcome = "threw"
    /\ comparator.last # Undefined
    /\ comparator.last # comparator.threshold

\* C28: the Compare button is enabled only while both viewers hold a model.
C28_EnabledOnlyWithBothModels ==
    ~compareBtnDisabled => \A v \in PageViewers : hasModel(v)

\* The steps of the try block of compare-models.js.
CliSteps == {"capture", "compare", "report"}

Succeeded(b) ==
    {k \in 1..Len(b.closed) : b.closed[k].code = 0 /\ b.closed[k].readable}

\* C30: a child is spawned only when every earlier one has closed; a child
\* that exits non-zero or leaves no readable report does not end the loop,
\* and the summary lists exactly the comparisons that succeeded.
C30_SequentialAndSkipping ==
    [][/\ batch'.i # batch.i =>
              /\ cli.pc \in {"none", "exited"}
              /\ Len(batch.closed) = batch.i
              /\ batch'.i = batch.i + 1
       /\ batch'.pc = "done" =>
              /\ Len(batch'.closed) = Len(batch'.comparisons)
              /\ batch'.summary = Succeeded(batch')]_vars

\* The batch has ended with a failed comparison followed by a successful one.
C30_Witness ==
    /\ batch.pc = "done"
    /\ \E k \in 1..Len(batch.closed) :
           /\ ~(batch.closed[k].code = 0 /\ batch.closed[k].readable)
           /\ \E l \in batch.summary : l > k

====
